---- MODULE Spec2Model ----
(***************************************************************************)
(* Generation trackers of the front-end (zustand stores with the persist   *)
(* middleware) and the three pages that drive them.                        *)
(*                                                                         *)
(*   usePodcastStore       src/unnamed/part_009 (generationId variant)     *)
(*   usePodcastStoreV1     src/frontend/src/stores/podcastStore.js         *)
(*   useConversationStore  src/frontend/src/stores/conversationStore.js    *)
(*                                                                         *)
(* The stores share no state and no operation of one reads another, so a   *)
(* behaviour drives one store (variable focus) from its initial state.     *)
(* A nullable JavaScript value is None (null) or Some(v).                  *)
(***************************************************************************)
EXTENDS Integers, Sequences, FiniteSets, TLC

None == << >>
Some(v) == << v >>
IsNull(o) == o = None
Val(o) == o[1]

(***************************************************************************)
(* Bounds of the exploration.                                              *)
(***************************************************************************)
MaxTicks == 1
MaxFiles == 2
MaxRequests == 2
MaxUITicks == 1
MaxUIFiles == 1

(***************************************************************************)
(* Clock.  Date.now() is in milliseconds.                                  *)
(***************************************************************************)
ClockStart == 1000
MinuteMs == 60000
PodcastTimeoutMs == 5 * 60 * 1000
PodcastV1TimeoutMs == 60 * 60 * 1000
ConversationTimeoutMs == 50 * 60 * 1000
AbortTimeoutMs == 3000000
ProgressDelayMs == 2000
TimeoutMs(store) ==
    CASE store = "podcast" -> PodcastTimeoutMs
      [] store = "podcastV1" -> PodcastV1TimeoutMs
      [] store = "conversation" -> ConversationTimeoutMs
\* The advances explored: just under a minute, a minute, the tracker's
\* timeout threshold and one millisecond more.  (startGeneration itself
\* may see the clock advance by one millisecond between its two reads.)
TickSteps(store) ==
    {MinuteMs - 1, MinuteMs, TimeoutMs(store), TimeoutMs(store) + 1}
\* The advances explored for the pages: one millisecond and just over the
\* tracker's timeout threshold.
UITickSteps(store) == {1, TimeoutMs(store) + 1}

(***************************************************************************)
(* Number.prototype.toString(): the decimal digits of a non-negative       *)
(* integer, most significant first.                                        *)
(***************************************************************************)
Digit(d) == CASE d = 0 -> "0" [] d = 1 -> "1" [] d = 2 -> "2" [] d = 3 -> "3"
              [] d = 4 -> "4" [] d = 5 -> "5" [] d = 6 -> "6" [] d = 7 -> "7"
              [] d = 8 -> "8" [] d = 9 -> "9"

RECURSIVE NumberToString(_)
NumberToString(n) ==
    IF n < 10 THEN << Digit(n) >>
    ELSE Append(NumberToString(n \div 10), Digit(n % 10))

(***************************************************************************)
(* Inputs.  A File carries its descriptive fields and its contents.        *)
(***************************************************************************)
FileA == [name |-> "a.pdf", size |-> 1000, type |-> "application/pdf",
          lastModified |-> 123, content |-> "bytesA"]
FileB == [name |-> "b.txt", size |-> 20, type |-> "text/plain",
          lastModified |-> 456, content |-> "bytesB"]
Files == {FileA, FileB}
FileLists == UNION {[1..n -> Files] : n \in 0..MaxFiles}
UIFileLists == UNION {[1..n -> Files] : n \in 0..MaxUIFiles}
Modes == {"text", "documents"}
Texts == {"", "hello"}
TypedTexts == {"", " ", "hello"}
FileNames == {"a.pdf", "b.txt"}
FileNameLists == UNION {[1..n -> FileNames] : n \in 0..MaxFiles}
UIFileNameLists == UNION {[1..n -> FileNames] : n \in 0..MaxUIFiles}

FileMeta(f) == [name |-> f.name, size |-> f.size, type |-> f.type,
                lastModified |-> f.lastModified]
MetadataOf(files) == [i \in 1..Len(files) |-> FileMeta(files[i])]


(***************************************************************************)
(* State.                                                                  *)
(***************************************************************************)
VARIABLES
    now,                \* Date.now()
    ticks,              \* clock advances so far (exploration bound)
    focus,              \* the store this behaviour drives
    podcastState,       \* usePodcastStore.getState()
    podcastV1State,     \* usePodcastStore.getState() of podcastStore.js
    conversationState,  \* useConversationStore.getState()
    localStorage,       \* storage key -> None | Some(persisted item)
    op,                 \* the store operation the last step called
    returned,           \* its return value (None for undefined)
    previousStart,      \* token and clock reading of the startGeneration
                        \* call just before the last call, when that is a
                        \* startGeneration too
    mounted,            \* the page component is mounted
    currentGenerationId,\* useState of the generationId page
    notebookResult,     \* useState of the podcast pages
    notebookError,      \* useState of the podcast pages
    resultMessage,      \* useState of FileManager
    warning,            \* notify.warning raised by the last mount
    requests,           \* the suspended handler invocations, oldest first
    settled,            \* None | Some(what the last handler to finish did)
    orphanTimers,       \* deadlines of armed abort timers of finished handlers
    upload,             \* the upload widget: what its closures hold
    speech,             \* useSpeechRecognition (real-time) and its recognizer
    autoStop,           \* useSpeechRecognition (auto-stop) and its recognizer
    chat                \* useChatState and its localStorage entry

hookVars == << upload, speech, autoStop, chat >>
storeVars == << now, ticks, focus, podcastState, podcastV1State,
                conversationState, localStorage, op, returned,
                previousStart, hookVars >>
uiVars == << mounted, currentGenerationId, notebookResult,
             notebookError, resultMessage, warning, requests, settled,
             orphanTimers, hookVars >>
trackerVars == << now, ticks, focus, podcastState, podcastV1State,
                  conversationState, localStorage, op, returned,
                  previousStart, mounted, currentGenerationId,
                  notebookResult, notebookError, resultMessage, warning,
                  requests, settled, orphanTimers >>
vars == << now, ticks, focus, podcastState, podcastV1State,
           conversationState, localStorage, op, returned, previousStart,
           mounted,
           currentGenerationId, notebookResult, notebookError, resultMessage,
           warning, requests, settled, orphanTimers,
           upload, speech, autoStop, chat >>

PodcastKey == "podcast-generation-storage"
ConversationKey == "conversation-generation-storage"
StorageKeys == {PodcastKey, ConversationKey}

(***************************************************************************)
(* usePodcastStore (generationId variant).                                 *)
(***************************************************************************)
PodcastInitialState ==
    [isGenerating |-> FALSE, podcastMode |-> "text", customText |-> "",
     uploadedFiles |-> << >>, uploadedFileMetadata |-> << >>,
     startTime |-> None, generationId |-> None]

\* Mutant: the token is the clock in whole seconds.
Podcast_generationId_Seconds(t1) == Some(NumberToString(t1 \div 1000))

\* const generationId = Date.now().toString()
Podcast_generationId(t1) == Some(NumberToString(t1))

\* Mutant: the file metadata is not derived from the files.
Podcast_startGeneration_NoMetadata(s, mode, text, files, t1, t2) ==
    [s EXCEPT !.isGenerating = TRUE,
              !.podcastMode = mode,
              !.customText = text,
              !.uploadedFiles = files,
              !.startTime = Some(t2),
              !.generationId = Podcast_generationId(t1)]

\* t1 is the Date.now() read for the token, t2 the later read for startTime.
Podcast_startGeneration(s, mode, text, files, t1, t2) ==
    [s EXCEPT !.isGenerating = TRUE,
              !.podcastMode = mode,
              !.customText = text,
              !.uploadedFiles = files,
              !.uploadedFileMetadata = MetadataOf(files),
              !.startTime = Some(t2),
              !.generationId = Podcast_generationId(t1)]

\* return generationId
Podcast_startGenerationReturn(t1) == Podcast_generationId(t1)

\* Mutant: generationId is left in place.
Podcast_completeGeneration_TokenKept(s) ==
    [s EXCEPT !.isGenerating = FALSE, !.startTime = None]

\* Mutant: completion also empties the text, as clearGeneration does.
Podcast_completeGeneration_ClearsText(s) ==
    [s EXCEPT !.isGenerating = FALSE,
              !.customText = "",
              !.startTime = None,
              !.generationId = None]

Podcast_completeGeneration(s) ==
    [s EXCEPT !.isGenerating = FALSE,
              !.startTime = None,
              !.generationId = None]

\* Mutant: clearing also resets the mode to its default.
Podcast_clearGeneration_ResetsMode(s) ==
    [s EXCEPT !.isGenerating = FALSE,
              !.podcastMode = "text",
              !.customText = "",
              !.uploadedFiles = << >>,
              !.uploadedFileMetadata = << >>,
              !.startTime = None,
              !.generationId = None]

\* Mutant: startTime is left in place.
Podcast_clearGeneration_StartTimeKept(s) ==
    [s EXCEPT !.isGenerating = FALSE,
              !.customText = "",
              !.uploadedFiles = << >>,
              !.uploadedFileMetadata = << >>,
              !.generationId = None]

Podcast_clearGeneration(s) ==
    [s EXCEPT !.isGenerating = FALSE,
              !.customText = "",
              !.uploadedFiles = << >>,
              !.uploadedFileMetadata = << >>,
              !.startTime = None,
              !.generationId = None]

\* Mutant: changing the mode also empties the text.
Podcast_setPodcastMode_ClearsText(s, mode) ==
    [s EXCEPT !.podcastMode = mode, !.customText = ""]

Podcast_setPodcastMode(s, mode) == [s EXCEPT !.podcastMode = mode]

Podcast_setCustomText(s, text) == [s EXCEPT !.customText = text]

(***************************************************************************)
(* The argument of setUploadedFiles: a literal value or an updater         *)
(* function of the previous list.  The updaters are the ones the pages     *)
(* pass (append a batch, drop an index) and one that returns a fixed list. *)
(***************************************************************************)
RemoveAt(seq, index) ==
    [i \in 1..(Len(seq) - (IF index \in 1..Len(seq) THEN 1 ELSE 0)) |->
        IF i < index THEN seq[i] ELSE seq[i + 1]]

ApplyUpdater(u, prev) ==
    CASE u.fn = "append" -> prev \o u.files
      [] u.fn = "removeAt" -> RemoveAt(prev, u.index)
      [] u.fn = "const" -> u.files

FilesArgs ==
    [kind : {"array"}, files : FileLists]
    \cup [kind : {"function"}, fn : {"append", "const"}, files : FileLists]
    \cup [kind : {"function"}, fn : {"removeAt"}, index : 1..MaxFiles]
    \cup [kind : {"nonArray"}]

\* Mutant: an updater function is stored as it is, that is as a non-array.
NewFiles_UpdaterNotCalled(filesOrUpdater, prev) ==
    IF filesOrUpdater.kind = "array"
    THEN [isArray |-> TRUE, files |-> filesOrUpdater.files]
    ELSE [isArray |-> FALSE]

\* newFiles of setUploadedFiles; a non-array value is tagged, not a list.
NewFiles(filesOrUpdater, prev) ==
    IF filesOrUpdater.kind = "function"
    THEN [isArray |-> TRUE, files |-> ApplyUpdater(filesOrUpdater, prev)]
    ELSE IF filesOrUpdater.kind = "array"
         THEN [isArray |-> TRUE, files |-> filesOrUpdater.files]
         ELSE [isArray |-> FALSE]

Podcast_setUploadedFiles(s, filesOrUpdater) ==
    LET newFiles == NewFiles(filesOrUpdater, s.uploadedFiles)
        fileMetadata == IF newFiles.isArray THEN MetadataOf(newFiles.files)
                        ELSE << >>
    IN [s EXCEPT !.uploadedFiles =
                     IF newFiles.isArray THEN newFiles.files ELSE << >>,
                 !.uploadedFileMetadata = fileMetadata]

\* Mutant: the raw files are persisted too.
Podcast_partialize_WithFiles(s) ==
    [isGenerating |-> s.isGenerating, podcastMode |-> s.podcastMode,
     customText |-> s.customText, uploadedFiles |-> s.uploadedFiles,
     uploadedFileMetadata |-> s.uploadedFileMetadata,
     startTime |-> s.startTime, generationId |-> s.generationId]

Podcast_partialize(s) ==
    [isGenerating |-> s.isGenerating, podcastMode |-> s.podcastMode,
     customText |-> s.customText,
     uploadedFileMetadata |-> s.uploadedFileMetadata,
     startTime |-> s.startTime, generationId |-> s.generationId]

(***************************************************************************)
(* usePodcastStore of podcastStore.js (no generationId, no metadata).      *)
(***************************************************************************)
PodcastV1InitialState ==
    [isGenerating |-> FALSE, podcastMode |-> "text", customText |-> "",
     uploadedFiles |-> << >>, startTime |-> None]

V1_startGeneration(s, mode, text, files, t) ==
    [s EXCEPT !.isGenerating = TRUE,
              !.podcastMode = mode,
              !.customText = text,
              !.uploadedFiles = files,
              !.startTime = Some(t)]

\* Mutant: the flag is left set while startTime is cleared.
V1_completeGeneration_FlagKept(s) == [s EXCEPT !.startTime = None]

V1_completeGeneration(s) ==
    [s EXCEPT !.isGenerating = FALSE, !.startTime = None]

V1_clearGeneration(s) ==
    [s EXCEPT !.isGenerating = FALSE,
              !.customText = "",
              !.uploadedFiles = << >>,
              !.startTime = None]

V1_setPodcastMode(s, mode) == [s EXCEPT !.podcastMode = mode]

V1_setCustomText(s, text) == [s EXCEPT !.customText = text]

V1_setUploadedFiles(s, filesOrUpdater) ==
    LET newFiles == NewFiles(filesOrUpdater, s.uploadedFiles)
    IN [s EXCEPT !.uploadedFiles =
                     IF newFiles.isArray THEN newFiles.files ELSE << >>]

V1_partialize(s) ==
    [isGenerating |-> s.isGenerating, podcastMode |-> s.podcastMode,
     customText |-> s.customText, startTime |-> s.startTime]

(***************************************************************************)
(* useConversationStore.                                                   *)
(***************************************************************************)
ConversationInitialState ==
    [generating |-> FALSE, selectedFiles |-> << >>, startTime |-> None]

\* Mutant: the files are added to the ones already recorded.
Conv_startGeneration_AppendsFiles(s, files, t) ==
    [s EXCEPT !.generating = TRUE,
              !.selectedFiles = s.selectedFiles \o files,
              !.startTime = Some(t)]

Conv_startGeneration(s, files, t) ==
    [s EXCEPT !.generating = TRUE,
              !.selectedFiles = files,
              !.startTime = Some(t)]

\* Mutant: completion leaves startTime in place.
Conv_completeGeneration_StartTimeKept(s) ==
    [s EXCEPT !.generating = FALSE, !.selectedFiles = << >>]

\* Mutant: completion keeps the recorded files.
Conv_completeGeneration_KeepsFiles(s) ==
    [s EXCEPT !.generating = FALSE, !.startTime = None]

Conv_completeGeneration(s) ==
    [s EXCEPT !.generating = FALSE,
              !.selectedFiles = << >>,
              !.startTime = None]

Conv_clearGeneration(s) ==
    [s EXCEPT !.generating = FALSE,
              !.selectedFiles = << >>,
              !.startTime = None]

\* Mutant: startTime is left out of the persisted part.
Conv_partialize_NoStartTime(s) ==
    [generating |-> s.generating, selectedFiles |-> s.selectedFiles]

Conv_partialize(s) ==
    [generating |-> s.generating, selectedFiles |-> s.selectedFiles,
     startTime |-> s.startTime]

(***************************************************************************)
(* isTimedOut of the three stores at clock reading t; !startTime holds for *)
(* null and for 0.                                                         *)
(***************************************************************************)
Falsy(startTime) == IsNull(startTime) \/ Val(startTime) = 0

\* Mutant: the threshold itself already counts as timed out.
Podcast_isTimedOut_AtThreshold(s, t) ==
    IF Falsy(s.startTime) THEN FALSE
    ELSE t - Val(s.startTime) >= PodcastTimeoutMs

Podcast_isTimedOut(s, t) ==
    IF Falsy(s.startTime) THEN FALSE
    ELSE t - Val(s.startTime) > PodcastTimeoutMs

V1_isTimedOut(s, t) ==
    IF Falsy(s.startTime) THEN FALSE
    ELSE t - Val(s.startTime) > PodcastV1TimeoutMs

Conv_isTimedOut(s, t) ==
    IF Falsy(s.startTime) THEN FALSE
    ELSE t - Val(s.startTime) > ConversationTimeoutMs

(***************************************************************************)
(* getElapsedMinutes of the three stores at clock reading t.  Math.floor   *)
(* rounds towards minus infinity, as \div does for a positive divisor.     *)
(***************************************************************************)
\* Mutant: Math.round instead of Math.floor.
Podcast_getElapsedMinutes_Rounds(s, t) ==
    IF Falsy(s.startTime) THEN 0
    ELSE (2 * (t - Val(s.startTime)) + MinuteMs) \div (2 * MinuteMs)

\* Mutant: the operands of the subtraction are swapped.
Podcast_getElapsedMinutes_Reversed(s, t) ==
    IF Falsy(s.startTime) THEN 0
    ELSE (Val(s.startTime) - t) \div MinuteMs

Podcast_getElapsedMinutes(s, t) ==
    IF Falsy(s.startTime) THEN 0
    ELSE (t - Val(s.startTime)) \div MinuteMs

V1_getElapsedMinutes(s, t) ==
    IF Falsy(s.startTime) THEN 0
    ELSE (t - Val(s.startTime)) \div MinuteMs

Conv_getElapsedMinutes(s, t) ==
    IF Falsy(s.startTime) THEN 0
    ELSE (t - Val(s.startTime)) \div MinuteMs

(***************************************************************************)
(* persist middleware: every set() writes the partialized state under the  *)
(* store's key; creating the store merges the stored item over the         *)
(* initial state and writes the result back.                               *)
(***************************************************************************)
PersistedItem(partial) == [state |-> partial, version |-> 0]

SetItem(storage, key, partial) ==
    [storage EXCEPT ![key] = Some(PersistedItem(partial))]

\* Mutant: the spread order is swapped, { ...persistedState, ...initialState }.
Merge_InitialWins(initial, persisted) ==
    [k \in DOMAIN initial |-> initial[k]]

\* { ...initialState, ...persistedState }
Merge(initial, persisted) ==
    [k \in DOMAIN initial |->
        IF k \in DOMAIN persisted THEN persisted[k] ELSE initial[k]]

Rehydrate(initial, item) ==
    IF IsNull(item) THEN initial ELSE Merge(initial, Val(item).state)


(***************************************************************************)
(* The upload widget of the podcast page: the uploadedFiles its handlers   *)
(* closed over at the last render, the handler calls made since, and what  *)
(* the last handler did.                                                   *)
(***************************************************************************)
UploadInitialState == [rendered |-> << >>, calls |-> 0, last |-> "render"]

(***************************************************************************)
(* useSpeechRecognition (real-time): the React state, the refs, and the    *)
(* browser's recognizer.  engine is the recognizer's session: idle,        *)
(* starting (start() called), running (its start event delivered),         *)
(* stopping (stop() called or an error raised, its end event pending);     *)
(* started tells whether the session's start event has been delivered,     *)
(* errored whether its error event has.  Text is a sequence of tokens.     *)
(* The last six fields record what happened and are read by no handler.    *)
(***************************************************************************)
SpeechInitialState ==
    [isListening |-> FALSE, transcript |-> << >>,
     finalTranscript |-> << >>, restartAfterClear |-> FALSE,
     isStarting |-> FALSE, shouldStop |-> FALSE,
     engine |-> "idle", started |-> FALSE, errored |-> FALSE,
     last |-> "mount",          \* the handler that ran last
     startedIn |-> "none",      \* engine at the last recognition.start() call
     manualStop |-> FALSE,      \* stopListening stopped the current session
     autoRestart |-> "none",    \* what the last onend restarted, if anything
     clearPending |-> FALSE,    \* cleared while listening, no session begun since
     leak |-> FALSE]            \* the last result was accepted while clearPending

(***************************************************************************)
(* useSpeechRecognition with auto-stop (part_010): the React state, the    *)
(* timer ref, the armed timers and the recognizer.  clock is the time in   *)
(* ms since the hook mounted, session counts the sessions started,         *)
(* onstartAt is the clock reading of the last start event.                 *)
(***************************************************************************)
AutoStopInitialState ==
    [isListening |-> FALSE, autoStopTimerRef |-> None, timers |-> {},
     engine |-> "idle", started |-> FALSE, errored |-> FALSE,
     mounted |-> TRUE, clock |-> 0, ticks |-> 0, session |-> 0,
     onstartAt |-> None, last |-> "mount"]
(***************************************************************************)
(* useChatState: the React state and the entry under storageKey.  A        *)
(* timestamp is a Date in memory and its ISO string in the entry.  The     *)
(* initial state is the hook mounted over an empty localStorage: the save  *)
(* effect of the first render has written the empty chat.                  *)
(***************************************************************************)
Chat_stringify(messages, inputMessage) ==
    [messages |-> [i \in DOMAIN messages |->
                      [messages[i] EXCEPT !.timestamp = [iso |-> @.date]]],
     inputMessage |-> inputMessage]

ChatInitialState ==
    [messages |-> << >>, inputMessage |-> "",
     stored |-> Some(Chat_stringify(<< >>, "")), last |-> "mount"]

(***************************************************************************)
(* Initial state: the stores as created, nothing persisted, no page        *)
(* mounted.                                                                *)
(***************************************************************************)
Stores == {"podcast", "podcastV1", "conversation"}

\* A call: the operation, its arguments, and whether the tracker was
\* generating when it was called.
Call(name, args, active) == [name |-> name, args |-> args, active |-> active]

InitCommon ==
    /\ now = ClockStart
    /\ ticks = 0
    /\ focus \in Stores
    /\ podcastState = PodcastInitialState
    /\ podcastV1State = PodcastV1InitialState
    /\ conversationState = ConversationInitialState
    /\ localStorage = [k \in StorageKeys |-> None]
    /\ op = Call("create", << >>, FALSE)
    /\ returned = None
    /\ previousStart = None
    /\ mounted = FALSE
    /\ currentGenerationId = None
    /\ notebookResult = None
    /\ notebookError = None
    /\ resultMessage = None
    /\ warning = FALSE
    /\ requests = << >>
    /\ settled = None
    /\ orphanTimers = {}
    /\ upload = UploadInitialState
    /\ speech = SpeechInitialState
    /\ autoStop = AutoStopInitialState
    /\ chat = ChatInitialState

Init == InitCommon

(***************************************************************************)
(* The clock advances.                                                     *)
(***************************************************************************)
Tick ==
    /\ ticks < MaxTicks
    /\ \E d \in TickSteps(focus) : now' = now + d
    /\ ticks' = ticks + 1
    /\ UNCHANGED << focus, podcastState, podcastV1State, conversationState,
                    localStorage, op, returned, previousStart >>
    /\ UNCHANGED uiVars

(***************************************************************************)
(* Direct calls of the store operations, in any order.                     *)
(***************************************************************************)
PodcastCall(next, name, args, ret) ==
    /\ focus = "podcast"
    /\ podcastState' = next
    /\ localStorage' = SetItem(localStorage, PodcastKey, Podcast_partialize(next))
    /\ op' = Call(name, args, podcastState.isGenerating)
    /\ returned' = ret
    /\ previousStart' =
          IF name = "startGeneration" /\ op.name = "startGeneration"
          THEN Some([token |-> Val(returned), at |-> op.args[4]])
          ELSE None
    /\ UNCHANGED << focus, podcastV1State, conversationState >>
    /\ UNCHANGED uiVars

CallPodcastStartGeneration ==
    \E mode \in Modes, text \in Texts, files \in FileLists, t2 \in {now, now + 1} :
        /\ t2 > now => ticks < MaxTicks
        /\ now' = t2
        /\ ticks' = IF t2 > now THEN ticks + 1 ELSE ticks
        /\ PodcastCall(Podcast_startGeneration(podcastState, mode, text, files, now, t2),
                       "startGeneration", << mode, text, files, now >>,
                       Podcast_startGenerationReturn(now))

CallPodcastCompleteGeneration ==
    /\ PodcastCall(Podcast_completeGeneration(podcastState),
                   "completeGeneration", << >>, None)
    /\ UNCHANGED << now, ticks >>

CallPodcastClearGeneration ==
    /\ PodcastCall(Podcast_clearGeneration(podcastState),
                   "clearGeneration", << >>, None)
    /\ UNCHANGED << now, ticks >>

CallPodcastSetPodcastMode ==
    /\ \E mode \in Modes :
          PodcastCall(Podcast_setPodcastMode(podcastState, mode),
                      "setPodcastMode", << >>, None)
    /\ UNCHANGED << now, ticks >>

CallPodcastSetCustomText ==
    /\ \E text \in Texts :
          PodcastCall(Podcast_setCustomText(podcastState, text),
                      "setCustomText", << >>, None)
    /\ UNCHANGED << now, ticks >>

CallPodcastSetUploadedFiles ==
    /\ \E arg \in FilesArgs :
          /\ arg.kind = "function" /\ arg.fn = "append"
                => Len(podcastState.uploadedFiles) + Len(arg.files) <= MaxFiles
          /\ PodcastCall(Podcast_setUploadedFiles(podcastState, arg),
                         "setUploadedFiles", << >>, None)
    /\ UNCHANGED << now, ticks >>

\* Page reload: the store is created again and rehydrated from localStorage.
ReloadPodcast ==
    /\ focus = "podcast"
    /\ podcastState' = Rehydrate(PodcastInitialState, localStorage[PodcastKey])
    /\ localStorage' = IF IsNull(localStorage[PodcastKey]) THEN localStorage
                       ELSE SetItem(localStorage, PodcastKey,
                                    Podcast_partialize(podcastState'))
    /\ op' = Call("reload", << >>, podcastState.isGenerating)
    /\ returned' = None
    /\ previousStart' = None
    /\ UNCHANGED << now, ticks, focus, podcastV1State, conversationState >>
    /\ UNCHANGED uiVars

V1Call(next, name, args) ==
    /\ focus = "podcastV1"
    /\ podcastV1State' = next
    /\ localStorage' = SetItem(localStorage, PodcastKey, V1_partialize(next))
    /\ op' = Call(name, args, podcastV1State.isGenerating)
    /\ returned' = None
    /\ UNCHANGED << now, ticks, focus, podcastState, conversationState,
                    previousStart >>
    /\ UNCHANGED uiVars

CallV1StartGeneration ==
    \E mode \in Modes, text \in Texts, files \in FileLists :
        V1Call(V1_startGeneration(podcastV1State, mode, text, files, now),
               "startGeneration", << mode, text, files, now >>)

CallV1CompleteGeneration ==
    V1Call(V1_completeGeneration(podcastV1State), "completeGeneration", << >>)

CallV1ClearGeneration ==
    V1Call(V1_clearGeneration(podcastV1State), "clearGeneration", << >>)

CallV1SetPodcastMode ==
    \E mode \in Modes :
        V1Call(V1_setPodcastMode(podcastV1State, mode), "setPodcastMode", << >>)

CallV1SetCustomText ==
    \E text \in Texts :
        V1Call(V1_setCustomText(podcastV1State, text), "setCustomText", << >>)

CallV1SetUploadedFiles ==
    \E arg \in FilesArgs :
        /\ arg.kind = "function" /\ arg.fn = "append"
              => Len(podcastV1State.uploadedFiles) + Len(arg.files) <= MaxFiles
        /\ V1Call(V1_setUploadedFiles(podcastV1State, arg),
                  "setUploadedFiles", << >>)

ReloadV1 ==
    /\ focus = "podcastV1"
    /\ podcastV1State' = Rehydrate(PodcastV1InitialState, localStorage[PodcastKey])
    /\ localStorage' = IF IsNull(localStorage[PodcastKey]) THEN localStorage
                       ELSE SetItem(localStorage, PodcastKey,
                                    V1_partialize(podcastV1State'))
    /\ op' = Call("reload", << >>, podcastV1State.isGenerating)
    /\ returned' = None
    /\ UNCHANGED << now, ticks, focus, podcastState, conversationState,
                    previousStart >>
    /\ UNCHANGED uiVars

ConvCall(next, name, args) ==
    /\ focus = "conversation"
    /\ conversationState' = next
    /\ localStorage' = SetItem(localStorage, ConversationKey, Conv_partialize(next))
    /\ op' = Call(name, args, conversationState.generating)
    /\ returned' = None
    /\ UNCHANGED << now, ticks, focus, podcastState, podcastV1State,
                    previousStart >>
    /\ UNCHANGED uiVars

CallConvStartGeneration ==
    \E files \in FileNameLists :
        ConvCall(Conv_startGeneration(conversationState, files, now),
                 "startGeneration", << files, now >>)

CallConvCompleteGeneration ==
    ConvCall(Conv_completeGeneration(conversationState),
             "completeGeneration", << >>)

CallConvClearGeneration ==
    ConvCall(Conv_clearGeneration(conversationState), "clearGeneration", << >>)

ReloadConv ==
    /\ focus = "conversation"
    /\ conversationState' = Rehydrate(ConversationInitialState,
                                      localStorage[ConversationKey])
    /\ localStorage' = IF IsNull(localStorage[ConversationKey]) THEN localStorage
                       ELSE SetItem(localStorage, ConversationKey,
                                    Conv_partialize(conversationState'))
    /\ op' = Call("reload", << >>, conversationState.generating)
    /\ returned' = None
    /\ UNCHANGED << now, ticks, focus, podcastState, podcastV1State,
                    previousStart >>
    /\ UNCHANGED uiVars

Next ==
    \/ Tick
    \/ CallPodcastStartGeneration
    \/ CallPodcastCompleteGeneration
    \/ CallPodcastClearGeneration
    \/ CallPodcastSetPodcastMode
    \/ CallPodcastSetCustomText
    \/ CallPodcastSetUploadedFiles
    \/ ReloadPodcast
    \/ CallV1StartGeneration
    \/ CallV1CompleteGeneration
    \/ CallV1ClearGeneration
    \/ CallV1SetPodcastMode
    \/ CallV1SetCustomText
    \/ CallV1SetUploadedFiles
    \/ ReloadV1
    \/ CallConvStartGeneration
    \/ CallConvCompleteGeneration
    \/ CallConvClearGeneration
    \/ ReloadConv

Spec == Init /\ [][Next]_vars

(***************************************************************************)
(* Properties of the stores under direct calls (Spec).                     *)
(***************************************************************************)

\* C1: in every reachable state of each tracker, a true generating flag
\* implies that startTime is not null.
GeneratingImpliesStartTime ==
    /\ podcastState.isGenerating => ~IsNull(podcastState.startTime)
    /\ podcastV1State.isGenerating => ~IsNull(podcastV1State.startTime)
    /\ conversationState.generating => ~IsNull(conversationState.startTime)

\* C1 witness: a tracker is generating after a reload rehydrated it.
GeneratingAfterReload ==
    /\ op.name = "reload"
    /\ conversationState.generating
    /\ ~IsNull(conversationState.startTime)

\* C2: in every reachable state of the podcast tracker, generationId is
\* non-null exactly when isGenerating is true.
GenerationIdIffGenerating ==
    ~IsNull(podcastState.generationId) <=> podcastState.isGenerating

\* C2 witness: a setter ran while a generation was active and the token is
\* still there.
TokenKeptAcrossSetter ==
    /\ op.name \in {"setPodcastMode", "setCustomText", "setUploadedFiles"}
    /\ podcastState.isGenerating
    /\ ~IsNull(podcastState.generationId)


\* C3: a completeGeneration call leaves the tracker with the flag false and
\* startTime (and generationId) null, and a call made while the tracker is
\* Idle changes no field.
CompleteGenerationResets ==
    [][op'.name = "completeGeneration" =>
        /\ focus = "podcast" =>
              /\ ~podcastState'.isGenerating
              /\ IsNull(podcastState'.startTime)
              /\ IsNull(podcastState'.generationId)
              /\ ~podcastState.isGenerating => podcastState' = podcastState
        /\ focus = "conversation" =>
              /\ ~conversationState'.generating
              /\ IsNull(conversationState'.startTime)
              /\ ~conversationState.generating =>
                    conversationState' = conversationState]_vars

\* C3 witness: completeGeneration has ended an active podcast generation
\* whose text is still recorded.
CompletedAfterStart ==
    /\ focus = "podcast"
    /\ op.name = "completeGeneration"
    /\ op.active
    /\ ~podcastState.isGenerating
    /\ podcastState.customText = "hello"

\* C4: a startGeneration(mode, text, files) call on the podcast tracker
\* sets isGenerating, stores mode, text and files, derives the metadata from
\* the files in order, stamps startTime with the clock and returns the
\* stored generationId.
StartGenerationEffect ==
    [][(/\ focus = "podcast"
        /\ op'.name = "startGeneration"
        /\ << podcastState, op, returned >>' # << podcastState, op, returned >>)
       =>
        /\ podcastState'.isGenerating
        /\ podcastState'.podcastMode = op'.args[1]
        /\ podcastState'.customText = op'.args[2]
        /\ podcastState'.uploadedFiles = op'.args[3]
        /\ podcastState'.uploadedFileMetadata = MetadataOf(op'.args[3])
        /\ podcastState'.startTime = Some(now')
        /\ ~IsNull(returned')
        /\ returned' = podcastState'.generationId]_vars

\* C4 witness: startGeneration was called with two files while a
\* generation was already active.
StartedWithTwoFiles ==
    /\ focus = "podcast"
    /\ op.name = "startGeneration"
    /\ op.active
    /\ Len(op.args[3]) = 2
    /\ Len(podcastState.uploadedFileMetadata) = 2
    /\ returned = podcastState.generationId

\* C8 (as claimed): a startGeneration call that directly follows another
\* one returns a different token.
SuccessiveTokensDiffer ==
    (focus = "podcast" /\ op.name = "startGeneration" /\ ~IsNull(previousStart))
        => returned # Some(Val(previousStart).token)

\* C8 (amended): the two tokens differ exactly when the clock advanced
\* between the two calls.
TokensDifferIffClockAdvanced ==
    (focus = "podcast" /\ op.name = "startGeneration" /\ ~IsNull(previousStart))
        => (returned # Some(Val(previousStart).token)
                <=> op.args[4] > Val(previousStart).at)

\* C8 witness: two successive calls one millisecond apart returned
\* different tokens.
TwoStartsOneMillisecondApart ==
    /\ focus = "podcast"
    /\ op.name = "startGeneration"
    /\ ~IsNull(previousStart)
    /\ op.args[4] = Val(previousStart).at + 1
    /\ returned # Some(Val(previousStart).token)

\* C9: completeGeneration on a podcast tracker leaves podcastMode,
\* customText, uploadedFiles and uploadedFileMetadata as they were.
CompleteGenerationKeepsInputs ==
    [][op'.name = "completeGeneration" =>
        /\ podcastState'.podcastMode = podcastState.podcastMode
        /\ podcastState'.customText = podcastState.customText
        /\ podcastState'.uploadedFiles = podcastState.uploadedFiles
        /\ podcastState'.uploadedFileMetadata = podcastState.uploadedFileMetadata
        /\ podcastV1State'.podcastMode = podcastV1State.podcastMode
        /\ podcastV1State'.customText = podcastV1State.customText
        /\ podcastV1State'.uploadedFiles = podcastV1State.uploadedFiles]_vars

\* C9 witness: an active documents-mode generation was completed and its
\* text, files and metadata are still recorded.
CompletedWithInputsKept ==
    /\ focus = "podcast"
    /\ op.name = "completeGeneration"
    /\ op.active
    /\ podcastState.podcastMode = "documents"
    /\ podcastState.customText = "hello"
    /\ Len(podcastState.uploadedFiles) = 2
    /\ Len(podcastState.uploadedFileMetadata) = 2

ClearGenerationResetsAllButMode ==
    [][op'.name = "clearGeneration" =>
        /\ focus = "podcast" =>
              podcastState' =
                  [isGenerating |-> FALSE,
                   podcastMode |-> podcastState.podcastMode,
                   customText |-> "",
                   uploadedFiles |-> << >>,
                   uploadedFileMetadata |-> << >>,
                   startTime |-> None,
                   generationId |-> None]
        /\ focus = "podcastV1" =>
              podcastV1State' =
                  [isGenerating |-> FALSE,
                   podcastMode |-> podcastV1State.podcastMode,
                   customText |-> "",
                   uploadedFiles |-> << >>,
                   startTime |-> None]]_vars

\* C11 witness: clearGeneration was called on an active documents-mode
\* generation and the mode is still documents.
ClearedActiveDocumentsGeneration ==
    /\ focus = "podcast"
    /\ op.name = "clearGeneration"
    /\ op.active
    /\ podcastState.podcastMode = "documents"
    /\ podcastState.uploadedFiles = << >>
    /\ IsNull(podcastState.generationId)

(***************************************************************************)
(* The tracker this behaviour drives, read through its own getters.        *)
(***************************************************************************)
FocusGenerating ==
    CASE focus = "podcast" -> podcastState.isGenerating
      [] focus = "podcastV1" -> podcastV1State.isGenerating
      [] focus = "conversation" -> conversationState.generating

FocusStartTime ==
    CASE focus = "podcast" -> podcastState.startTime
      [] focus = "podcastV1" -> podcastV1State.startTime
      [] focus = "conversation" -> conversationState.startTime

\* isTimedOut() called now.
FocusIsTimedOut ==
    CASE focus = "podcast" -> Podcast_isTimedOut(podcastState, now)
      [] focus = "podcastV1" -> V1_isTimedOut(podcastV1State, now)
      [] focus = "conversation" -> Conv_isTimedOut(conversationState, now)

\* getElapsedMinutes() called now.
FocusElapsedMinutes ==
    CASE focus = "podcast" -> Podcast_getElapsedMinutes(podcastState, now)
      [] focus = "podcastV1" -> V1_getElapsedMinutes(podcastV1State, now)
      [] focus = "conversation" -> Conv_getElapsedMinutes(conversationState, now)

\* C12: isTimedOut() is false right after startGeneration, completeGeneration
\* and clearGeneration, and it turns from false to true only by the clock
\* advancing, with the record untouched, to more than the tracker's
\* threshold past startTime.
TimedOutOnlyByClock ==
    [][LET clockOnly ==
               /\ now' > now
               /\ op' = op
               /\ << podcastState, podcastV1State, conversationState >>'
                     = << podcastState, podcastV1State, conversationState >>
       IN /\ (/\ ~clockOnly
               /\ op'.name \in {"startGeneration", "completeGeneration",
                                 "clearGeneration"})
                 => ~FocusIsTimedOut'
          /\ (~FocusIsTimedOut /\ FocusIsTimedOut')
                 => /\ clockOnly
                    /\ FocusGenerating
                    /\ now' - Val(FocusStartTime) > TimeoutMs(focus)
                    /\ now - Val(FocusStartTime) <= TimeoutMs(focus)]_vars

\* C12 witness: the podcast generation started last is one millisecond
\* past its threshold and isTimedOut() is true.
PodcastJustTimedOut ==
    /\ focus = "podcast"
    /\ op.name = "startGeneration"
    /\ FocusIsTimedOut
    /\ now - Val(podcastState.startTime) = PodcastTimeoutMs + 1

\* C13: in every reachable state isTimedOut() is true exactly when the
\* tracker is generating, startTime is set and more than the threshold has
\* passed since startTime.
TimedOutIffGeneratingPastThreshold ==
    FocusIsTimedOut <=>
        /\ FocusGenerating
        /\ ~IsNull(FocusStartTime)
        /\ now - Val(FocusStartTime) > TimeoutMs(focus)

\* C13 witness: a generation was completed more than the threshold after
\* it had started; the tracker is not generating and isTimedOut() is false.
CompletedPastThreshold ==
    /\ focus = "conversation"
    /\ op.name = "completeGeneration"
    /\ op.active
    /\ now - ClockStart > ConversationTimeoutMs
    /\ ~FocusGenerating
    /\ ~FocusIsTimedOut

\* C14: getElapsedMinutes() is 0 when startTime is null and otherwise the
\* whole number of minutes e with e * 60000 <= now - startTime
\* < (e + 1) * 60000.
ElapsedMinutesIsFloor ==
    LET e == FocusElapsedMinutes
    IN IF IsNull(FocusStartTime) THEN e = 0
       ELSE now >= Val(FocusStartTime) =>
               /\ e * 60000 <= now - Val(FocusStartTime)
               /\ now - Val(FocusStartTime) < (e + 1) * 60000

\* C14 witness: one millisecond short of a minute after the start the
\* podcast tracker still reports 0 minutes.
JustUnderOneMinute ==
    /\ focus = "podcast"
    /\ ~IsNull(podcastState.startTime)
    /\ now - Val(podcastState.startTime) = MinuteMs - 1
    /\ FocusElapsedMinutes = 0

\* C15 (as claimed): while the tracker stays generating, whatever operation
\* other than completeGeneration and clearGeneration is called,
\* getElapsedMinutes() does not decrease.
ElapsedNeverDecreasesWhileGenerating ==
    [][(FocusGenerating /\ FocusGenerating')
          => FocusElapsedMinutes' >= FocusElapsedMinutes]_vars

\* C15 (amended): getElapsedMinutes() does not decrease while the tracker
\* stays generating with the same startTime, and a startGeneration call
\* restarts it at 0.
ElapsedNeverDecreasesUntilRestart ==
    [][/\ (FocusGenerating /\ FocusGenerating'
              /\ FocusStartTime' = FocusStartTime)
            => FocusElapsedMinutes' >= FocusElapsedMinutes
       /\ (FocusGenerating /\ FocusGenerating'
              /\ FocusStartTime' # FocusStartTime)
            => FocusElapsedMinutes' = 0]_vars

\* C15 witness: startGeneration was called again a minute or more into an
\* active generation, and the elapsed minutes are back at 0.
RestartedAfterAMinute ==
    /\ op.name = "startGeneration"
    /\ op.active
    /\ now - ClockStart >= MinuteMs
    /\ FocusElapsedMinutes = 0

\* C16: after every mutating operation of a podcast tracker the persisted
\* record is the in-memory state restricted to isGenerating, podcastMode,
\* customText, uploadedFileMetadata, startTime and generationId (those of
\* them the store has), and no persisted record holds uploadedFiles.
PersistedIsProjection ==
    /\ \A k \in StorageKeys :
          ~IsNull(localStorage[k])
              => "uploadedFiles" \notin DOMAIN Val(localStorage[k]).state
    /\ (focus = "podcast" /\ op.name \notin {"create", "reload"}) =>
          /\ ~IsNull(localStorage[PodcastKey])
          /\ Val(localStorage[PodcastKey]).state =
                [isGenerating |-> podcastState.isGenerating,
                 podcastMode |-> podcastState.podcastMode,
                 customText |-> podcastState.customText,
                 uploadedFileMetadata |-> podcastState.uploadedFileMetadata,
                 startTime |-> podcastState.startTime,
                 generationId |-> podcastState.generationId]
    /\ (focus = "podcastV1" /\ op.name \notin {"create", "reload"}) =>
          /\ ~IsNull(localStorage[PodcastKey])
          /\ Val(localStorage[PodcastKey]).state =
                [isGenerating |-> podcastV1State.isGenerating,
                 podcastMode |-> podcastV1State.podcastMode,
                 customText |-> podcastV1State.customText,
                 startTime |-> podcastV1State.startTime]

\* C16 witness: setUploadedFiles stored two files, and the persisted record
\* holds their metadata.
TwoFilesSetAndPersisted ==
    /\ focus = "podcast"
    /\ op.name = "setUploadedFiles"
    /\ Len(podcastState.uploadedFiles) = 2
    /\ ~IsNull(localStorage[PodcastKey])
    /\ Len(Val(localStorage[PodcastKey]).state.uploadedFileMetadata) = 2

\* C17: a reload of the podcast tracker keeps isGenerating, podcastMode,
\* customText, uploadedFileMetadata, startTime and generationId and leaves
\* uploadedFiles empty.
ReloadKeepsAllButFiles ==
    [][(focus = "podcast" /\ op'.name = "reload") =>
        podcastState' = [isGenerating |-> podcastState.isGenerating,
                         podcastMode |-> podcastState.podcastMode,
                         customText |-> podcastState.customText,
                         uploadedFiles |-> << >>,
                         uploadedFileMetadata |->
                             podcastState.uploadedFileMetadata,
                         startTime |-> podcastState.startTime,
                         generationId |-> podcastState.generationId]]_vars

\* C17 witness: after a reload of an active generation the metadata of two
\* files is there and the raw file list is empty.
ReloadedWithMetadataOnly ==
    /\ focus = "podcast"
    /\ op.name = "reload"
    /\ podcastState.isGenerating
    /\ Len(podcastState.uploadedFileMetadata) = 2
    /\ podcastState.uploadedFiles = << >>

\* C19: a startGeneration call made while the tracker is Active leaves the
\* state that the same call at the same time leaves from an Idle tracker
\* (as created, or after completeGeneration or clearGeneration), so nothing
\* of the earlier generation survives.
ReentrantStartOverwrites ==
    [][(/\ op'.name = "startGeneration"
        /\ op'.active
        /\ << podcastState, conversationState, op >>'
              # << podcastState, conversationState, op >>)
       =>
        /\ focus = "podcast" =>
              \A idle \in {PodcastInitialState,
                            Podcast_completeGeneration(podcastState),
                            Podcast_clearGeneration(podcastState)} :
                  podcastState' =
                      Podcast_startGeneration(idle, op'.args[1], op'.args[2],
                                              op'.args[3], op'.args[4], now')
        /\ focus = "conversation" =>
              \A idle \in {ConversationInitialState,
                            Conv_completeGeneration(conversationState)} :
                  /\ conversationState' =
                        Conv_startGeneration(idle, op'.args[1], op'.args[2])
                  /\ conversationState'.selectedFiles = op'.args[1]]_vars

\* C19 witness: the conversation tracker was restarted with one file while
\* a generation was active.
ConvRestartedWithOneFile ==
    /\ focus = "conversation"
    /\ op.name = "startGeneration"
    /\ op.active
    /\ conversationState.selectedFiles = << "b.txt" >>

\* C21: setPodcastMode changes only podcastMode, setCustomText only
\* customText and setUploadedFiles only uploadedFiles and
\* uploadedFileMetadata, whether or not a generation is Active; none of
\* them changes isGenerating, startTime or generationId.
SettersChangeOnlyTheirField ==
    [][/\ op'.name = "setPodcastMode" =>
             \A k \in DOMAIN podcastState \ {"podcastMode"} :
                 podcastState'[k] = podcastState[k]
       /\ op'.name = "setCustomText" =>
             \A k \in DOMAIN podcastState \ {"customText"} :
                 podcastState'[k] = podcastState[k]
       /\ op'.name = "setUploadedFiles" =>
             \A k \in DOMAIN podcastState
                       \ {"uploadedFiles", "uploadedFileMetadata"} :
                 podcastState'[k] = podcastState[k]]_vars

\* C21 witness: setPodcastMode switched an active text-mode generation to
\* documents and the generation is still active with its text.
ModeSwitchedWhileGenerating ==
    /\ focus = "podcast"
    /\ op.name = "setPodcastMode"
    /\ op.active
    /\ podcastState.isGenerating
    /\ podcastState.podcastMode = "documents"
    /\ podcastState.customText = "hello"
    /\ podcastState.uploadedFiles = << >>

\* The {name, size, type, lastModified} projection, element by element.
IsProjection(meta, files) ==
    /\ Len(meta) = Len(files)
    /\ \A i \in 1..Len(files) :
          /\ DOMAIN meta[i] = {"name", "size", "type", "lastModified"}
          /\ meta[i].name = files[i].name
          /\ meta[i].size = files[i].size
          /\ meta[i].type = files[i].type
          /\ meta[i].lastModified = files[i].lastModified

\* C22: in every state setUploadedFiles stores the same for a literal list
\* L and for an updater that returns L, and empty files and metadata for a
\* non-array value; and every operation but a reload takes a state whose
\* metadata is the projection of its files to another such state.
FilesAndMetadataTogether ==
    /\ [](/\ \A L \in FileLists :
               LET literal == Podcast_setUploadedFiles(podcastState,
                                  [kind |-> "array", files |-> L])
                   updater == Podcast_setUploadedFiles(podcastState,
                                  [kind |-> "function", fn |-> "const",
                                   files |-> L])
               IN /\ literal = updater
                  /\ updater.uploadedFiles = L
           /\ LET other == Podcast_setUploadedFiles(podcastState,
                                [kind |-> "nonArray"])
              IN other.uploadedFiles = << >>
                    /\ other.uploadedFileMetadata = << >>)
    /\ [][(/\ op'.name # "reload"
           /\ IsProjection(podcastState.uploadedFileMetadata,
                           podcastState.uploadedFiles))
             => IsProjection(podcastState'.uploadedFileMetadata,
                             podcastState'.uploadedFiles)]_vars

\* C22 witness: an updater dropped the first of two files, and the
\* metadata left is that of the second.
UpdaterLeftSecondFile ==
    /\ focus = "podcast"
    /\ op.name = "setUploadedFiles"
    /\ podcastState.uploadedFiles = << FileB >>
    /\ podcastState.uploadedFileMetadata = << FileMeta(FileB) >>


(***************************************************************************)
(* The pages.  focus = "podcast": the PodcastGenerator that keeps the      *)
(* token in currentGenerationId (G_); focus = "podcastV1": the             *)
(* PodcastGenerator with try/finally (P_); focus = "conversation":         *)
(* FileManager (FM_).  A request is one invocation of the async generate   *)
(* handler, suspended at an await; it leaves requests when it finishes.    *)
(***************************************************************************)
NewRequest(token, captured, deadline) ==
    [token |-> token,          \* genId returned by startGeneration
     abandoned |-> FALSE,      \* a mount effect gave its generation up
     captured |-> captured,    \* currentGenerationId in the handler's closure
     live |-> TRUE,            \* its component instance is still the mounted one
     pc |-> "fetch",           \* fetch, delay1, delay2
     superseded |-> FALSE,     \* a later startGeneration happened meanwhile
     deadline |-> deadline,    \* when its abort timer is due (0: no timer)
     wake |-> 0]               \* when its progress wait ends

\* What a handler did by the time it finished.
Settled(r, outcome, acted, completes) ==
    Some([token |-> r.token, outcome |-> outcome, superseded |-> r.superseded,
          acted |-> acted, completes |-> completes])

Drop(reqs, i) == SubSeq(reqs, 1, i - 1) \o SubSeq(reqs, i + 1, Len(reqs))

\* The mount effect clears the record of a generation it takes for stuck:
\* the requests still pending are no longer tracked.
Abandon(reqs) == [i \in DOMAIN reqs |-> [reqs[i] EXCEPT !.abandoned = TRUE]]

Supersede(reqs) == [i \in DOMAIN reqs |-> [reqs[i] EXCEPT !.superseded = TRUE]]

\* String.prototype.trim() on the typed texts.
Trim(text) == IF text = " " THEN "" ELSE text

\* disabled={isGeneratingNotebook || ...} of the submit button.
SubmitDisabled(s) ==
    \/ s.isGenerating
    \/ s.podcastMode = "text" /\ Trim(s.customText) = ""
    \/ s.podcastMode = "documents" /\ Len(s.uploadedFiles) = 0

\* Early returns of handleGenerateAdvancedAudio.
GenerateRejected(s) ==
    \/ s.podcastMode = "text" /\ Trim(s.customText) = ""
    \/ s.podcastMode = "documents" /\ Len(s.uploadedFiles) = 0

\* processFiles: the limits and the checks that reject a batch.
MaxUploadFiles == 10
MaxFileSize == 10 * 1024 * 1024
SupportedTypes ==
    {"application/pdf",
     "application/vnd.openxmlformats-officedocument.wordprocessingml.document",
     "application/msword", "text/plain", "text/markdown"}

ProcessFilesRejected(files, uploaded) ==
    \/ Len(files) > MaxUploadFiles
    \/ Len(uploaded) + Len(files) > MaxUploadFiles
    \/ \E i \in DOMAIN files : files[i].type \notin SupportedTypes
    \/ \E i \in DOMAIN files : files[i].size > MaxFileSize

\* A component-state setter called by a handler reaches the screen only
\* while the handler's component instance is the mounted one; unmounting
\* or reloading ends the instance.
OnScreen(r) == r.live

Detach(reqs) == [i \in DOMAIN reqs |-> [reqs[i] EXCEPT !.live = FALSE]]

\* currentGenerationId === genId, with currentGenerationId as the handler's
\* closure holds it.
G_isCurrent(captured, genId) == captured = genId

\* What the suspended handlers do when the awaited call settles: the
\* completeGeneration calls made, whether clearTimeout ran, the message.
P_outcomes == {"resolved", "rejected"}

P_settle(outcome) ==
    [completes |-> 1,
     result |-> outcome = "resolved",
     error |-> outcome = "rejected"]

FM_outcomes == {"ok_success", "ok_failure", "ok_null", "http_error",
                "bad_json", "network_error"}

\* Mutant: the catch block leaves the record alone on an AbortError.
FM_settle_AbortKeepsGenerating(outcome) ==
    CASE outcome = "ok_success" ->
            [completes |-> 1, cleared |-> TRUE, message |-> "success"]
      [] outcome = "ok_failure" ->
            [completes |-> 1, cleared |-> TRUE, message |-> "failed"]
      [] outcome = "ok_null" ->
            [completes |-> 2, cleared |-> TRUE, message |-> "error"]
      [] outcome \in {"http_error", "bad_json"} ->
            [completes |-> 1, cleared |-> TRUE, message |-> "error"]
      [] outcome = "network_error" ->
            [completes |-> 1, cleared |-> FALSE, message |-> "error"]
      [] outcome = "abort" ->
            [completes |-> 0, cleared |-> FALSE, message |-> "timeout"]

\* ok_*: fetch resolved with a 2xx status and the body parsed; ok_null is
\* the JSON body null, where result.success throws after completeGeneration
\* and the catch block calls it again.  http_error: !response.ok.
\* bad_json: response.json() rejected.  network_error: fetch rejected
\* (clearTimeout is skipped).  abort: the abort timer fired.
FM_settle(outcome) ==
    CASE outcome = "ok_success" ->
            [completes |-> 1, cleared |-> TRUE, message |-> "success"]
      [] outcome = "ok_failure" ->
            [completes |-> 1, cleared |-> TRUE, message |-> "failed"]
      [] outcome = "ok_null" ->
            [completes |-> 2, cleared |-> TRUE, message |-> "error"]
      [] outcome \in {"http_error", "bad_json"} ->
            [completes |-> 1, cleared |-> TRUE, message |-> "error"]
      [] outcome = "network_error" ->
            [completes |-> 1, cleared |-> FALSE, message |-> "error"]
      [] outcome = "abort" ->
            [completes |-> 1, cleared |-> FALSE, message |-> "timeout"]

UIUnchangedStoreTrace ==
    UNCHANGED << focus, op, returned, previousStart, hookVars >>

UITick ==
    /\ ticks < MaxUITicks
    /\ \E d \in UITickSteps(focus) : now' = now + d
    /\ ticks' = ticks + 1
    /\ UNCHANGED << focus, podcastState, podcastV1State, conversationState,
                    localStorage, op, returned, previousStart >>
    /\ UNCHANGED uiVars

(***************************************************************************)
(* PodcastGenerator with currentGenerationId (SmartReport.jsx 619-1172).   *)
(***************************************************************************)
G_Store(next) ==
    /\ focus = "podcast"
    /\ podcastState' = next
    /\ localStorage' = SetItem(localStorage, PodcastKey, Podcast_partialize(next))
    /\ UNCHANGED << podcastV1State, conversationState >>
    /\ UIUnchangedStoreTrace

\* Mount: fresh component state; the mount effect clears a generating
\* record; the URL effect sets the mode.
G_Mount ==
    /\ ~mounted
    /\ \E urlMode \in Modes :
          G_Store(Podcast_setPodcastMode(
                      IF podcastState.isGenerating
                      THEN Podcast_clearGeneration(podcastState)
                      ELSE podcastState, urlMode))
    /\ requests' = IF podcastState.isGenerating THEN Abandon(requests)
                   ELSE requests
    /\ mounted' = TRUE
    /\ currentGenerationId' = None
    /\ notebookResult' = None
    /\ notebookError' = None
    /\ warning' = FALSE
    /\ UNCHANGED << now, ticks, resultMessage, settled, orphanTimers >>

\* handleLocationChange, run by the 100 ms interval and by popstate.
G_handleLocationChange ==
    /\ mounted
    /\ \E urlMode \in Modes :
          G_Store(Podcast_setPodcastMode(podcastState, urlMode))
    /\ UNCHANGED << now, ticks >>
    /\ UNCHANGED uiVars

\* textarea onChange (the textarea is disabled while generating).
G_changeCustomText ==
    /\ mounted
    /\ podcastState.podcastMode = "text"
    /\ ~podcastState.isGenerating
    /\ \E text \in TypedTexts :
          G_Store(Podcast_setCustomText(podcastState, text))
    /\ UNCHANGED << now, ticks >>
    /\ UNCHANGED uiVars

G_Unmount ==
    /\ focus = "podcast"
    /\ mounted
    /\ mounted' = FALSE
    /\ requests' = Detach(requests)
    /\ UNCHANGED storeVars
    /\ UNCHANGED << currentGenerationId, notebookResult, notebookError,
                    resultMessage, warning, settled, orphanTimers >>


G_processFiles ==
    /\ mounted
    /\ podcastState.podcastMode = "documents"
    /\ \E files \in UIFileLists :
          /\ Len(podcastState.uploadedFiles) + Len(files) <= MaxUIFiles
          /\ G_Store(IF ProcessFilesRejected(files, podcastState.uploadedFiles)
                     THEN podcastState
                     ELSE Podcast_setUploadedFiles(podcastState,
                              [kind |-> "function", fn |-> "append",
                               files |-> files]))
    /\ UNCHANGED << now, ticks >>
    /\ UNCHANGED uiVars

G_removeFile ==
    /\ mounted
    /\ podcastState.podcastMode = "documents"
    /\ \E index \in DOMAIN podcastState.uploadedFiles :
          G_Store(Podcast_setUploadedFiles(podcastState,
                      [kind |-> "function", fn |-> "removeAt", index |-> index]))
    /\ UNCHANGED << now, ticks >>
    /\ UNCHANGED uiVars

G_clearAllFiles ==
    /\ mounted
    /\ podcastState.podcastMode = "documents"
    /\ Len(podcastState.uploadedFiles) > 0
    /\ G_Store(Podcast_setUploadedFiles(podcastState,
                   [kind |-> "array", files |-> << >>]))
    /\ UNCHANGED << now, ticks >>
    /\ UNCHANGED uiVars

\* handleGenerateAdvancedAudio up to its first await.
G_handleGenerateAdvancedAudio ==
    /\ mounted
    /\ ~SubmitDisabled(podcastState)
    /\ ~GenerateRejected(podcastState)
    /\ Len(requests) < MaxRequests
    /\ \E t2 \in {now, now + 1} :
          /\ t2 > now => ticks < MaxUITicks
          /\ now' = t2
          /\ ticks' = IF t2 > now THEN ticks + 1 ELSE ticks
          /\ G_Store(Podcast_startGeneration(podcastState,
                         podcastState.podcastMode, podcastState.customText,
                         podcastState.uploadedFiles, now, t2))
    /\ currentGenerationId' = Podcast_startGenerationReturn(now)
    /\ notebookError' = None
    /\ notebookResult' = None
    /\ requests' = Append(Supersede(requests),
                          NewRequest(Podcast_startGenerationReturn(now),
                                     currentGenerationId, 0))
    /\ UNCHANGED << mounted, resultMessage, warning, settled, orphanTimers >>

\* The handler resumes: the API call settles, or one of the two 2000 ms
\* progress waits ends.
G_resume ==
    /\ focus = "podcast"
    /\ \E i \in DOMAIN requests, outcome \in P_outcomes :
        LET r == requests[i]
            current == G_isCurrent(r.captured, r.token)
            suspends == r.pc = "delay1"
                          \/ (r.pc = "fetch" /\ outcome = "resolved" /\ current)
            completes == r.pc = "delay2"
                           \/ (r.pc = "fetch" /\ outcome = "rejected" /\ current)
        IN
        /\ r.pc # "fetch" => (outcome = "resolved" /\ now >= r.wake)
        /\ requests' =
              IF suspends
              THEN [requests EXCEPT
                       ![i].pc = IF r.pc = "fetch" THEN "delay1" ELSE "delay2",
                       ![i].wake = now + ProgressDelayMs]
              ELSE Drop(requests, i)
        /\ settled' =
              IF suspends THEN settled
              ELSE Settled(r, outcome, completes, IF completes THEN 1 ELSE 0)
        /\ IF completes
           THEN /\ podcastState' = Podcast_completeGeneration(podcastState)
                /\ localStorage' = SetItem(localStorage, PodcastKey,
                                      Podcast_partialize(podcastState'))
           ELSE UNCHANGED << podcastState, localStorage >>
        /\ notebookResult' =
              IF r.pc = "delay2" /\ OnScreen(r) THEN Some(r.token)
              ELSE notebookResult
        /\ notebookError' =
              IF r.pc = "fetch" /\ completes /\ OnScreen(r) THEN Some(r.token)
              ELSE notebookError
    /\ UNCHANGED << now, ticks, podcastV1State, conversationState >>
    /\ UIUnchangedStoreTrace
    /\ UNCHANGED << mounted, currentGenerationId, resultMessage, warning,
                    orphanTimers >>

\* Page reload: handlers and timers of the old page are gone, the store is
\* created again from localStorage, no page is mounted.
G_reloadPage ==
    /\ focus = "podcast"
    /\ podcastState' = Rehydrate(PodcastInitialState, localStorage[PodcastKey])
    /\ localStorage' = IF IsNull(localStorage[PodcastKey]) THEN localStorage
                       ELSE SetItem(localStorage, PodcastKey,
                                    Podcast_partialize(podcastState'))
    /\ mounted' = FALSE
    /\ requests' = << >>
    /\ orphanTimers' = {}
    /\ UNCHANGED << now, ticks, podcastV1State, conversationState >>
    /\ UIUnchangedStoreTrace
    /\ UNCHANGED << currentGenerationId, notebookResult, notebookError,
                    resultMessage, warning, settled >>


(***************************************************************************)
(* PodcastGenerator with try/finally (PodcastGenerator.jsx).               *)
(***************************************************************************)
P_Store(next) ==
    /\ focus = "podcastV1"
    /\ podcastV1State' = next
    /\ localStorage' = SetItem(localStorage, PodcastKey, V1_partialize(next))
    /\ UNCHANGED << podcastState, conversationState >>
    /\ UIUnchangedStoreTrace

\* Mount: the mount effect clears a generating record that has timed out
\* and warns; the URL effect sets the mode.
P_Mount ==
    /\ ~mounted
    /\ LET timedOut == podcastV1State.isGenerating
                         /\ V1_isTimedOut(podcastV1State, now)
       IN /\ \E urlMode \in Modes :
                P_Store(V1_setPodcastMode(
                            IF timedOut THEN V1_clearGeneration(podcastV1State)
                            ELSE podcastV1State, urlMode))
          /\ warning' = timedOut
          /\ requests' = IF timedOut THEN Abandon(requests) ELSE requests
    /\ mounted' = TRUE
    /\ notebookResult' = None
    /\ notebookError' = None
    /\ UNCHANGED << now, ticks, currentGenerationId, resultMessage,
                    settled, orphanTimers >>

P_handleLocationChange ==
    /\ mounted
    /\ \E urlMode \in Modes :
          P_Store(V1_setPodcastMode(podcastV1State, urlMode))
    /\ UNCHANGED << now, ticks >>
    /\ UNCHANGED uiVars

P_changeCustomText ==
    /\ mounted
    /\ podcastV1State.podcastMode = "text"
    /\ ~podcastV1State.isGenerating
    /\ \E text \in TypedTexts :
          P_Store(V1_setCustomText(podcastV1State, text))
    /\ UNCHANGED << now, ticks >>
    /\ UNCHANGED uiVars

P_processFiles ==
    /\ mounted
    /\ podcastV1State.podcastMode = "documents"
    /\ \E files \in UIFileLists :
          /\ Len(podcastV1State.uploadedFiles) + Len(files) <= MaxUIFiles
          /\ P_Store(IF ProcessFilesRejected(files, podcastV1State.uploadedFiles)
                     THEN podcastV1State
                     ELSE V1_setUploadedFiles(podcastV1State,
                              [kind |-> "function", fn |-> "append",
                               files |-> files]))
    /\ UNCHANGED << now, ticks >>
    /\ UNCHANGED uiVars

P_removeFile ==
    /\ mounted
    /\ podcastV1State.podcastMode = "documents"
    /\ \E index \in DOMAIN podcastV1State.uploadedFiles :
          P_Store(V1_setUploadedFiles(podcastV1State,
                      [kind |-> "function", fn |-> "removeAt", index |-> index]))
    /\ UNCHANGED << now, ticks >>
    /\ UNCHANGED uiVars

P_clearAllFiles ==
    /\ mounted
    /\ podcastV1State.podcastMode = "documents"
    /\ Len(podcastV1State.uploadedFiles) > 0
    /\ P_Store(V1_setUploadedFiles(podcastV1State,
                   [kind |-> "array", files |-> << >>]))
    /\ UNCHANGED << now, ticks >>
    /\ UNCHANGED uiVars

P_Unmount ==
    /\ focus = "podcastV1"
    /\ mounted
    /\ mounted' = FALSE
    /\ requests' = Detach(requests)
    /\ UNCHANGED storeVars
    /\ UNCHANGED << currentGenerationId, notebookResult, notebookError,
                    resultMessage, warning, settled, orphanTimers >>

\* handleGenerateAdvancedAudio up to its await.
P_handleGenerateAdvancedAudio ==
    /\ mounted
    /\ ~SubmitDisabled(podcastV1State)
    /\ ~GenerateRejected(podcastV1State)
    /\ Len(requests) < MaxRequests
    /\ P_Store(V1_startGeneration(podcastV1State, podcastV1State.podcastMode,
                   podcastV1State.customText, podcastV1State.uploadedFiles, now))
    /\ notebookError' = None
    /\ notebookResult' = None
    /\ requests' = Append(Supersede(requests), NewRequest(None, None, 0))
    /\ UNCHANGED << now, ticks, mounted, currentGenerationId,
                    resultMessage, warning, settled, orphanTimers >>

\* The API call settles: try or catch body, then finally.
P_resume ==
    /\ \E i \in DOMAIN requests, outcome \in P_outcomes :
        LET r == requests[i]
            h == P_settle(outcome)
        IN /\ requests' = Drop(requests, i)
           /\ settled' = Settled(r, outcome, TRUE, h.completes)
           /\ notebookResult' = IF h.result /\ OnScreen(r)
                                THEN Some(outcome) ELSE notebookResult
           /\ notebookError' = IF h.error /\ OnScreen(r)
                               THEN Some(outcome) ELSE notebookError
           /\ P_Store(IF h.completes > 0
                      THEN V1_completeGeneration(podcastV1State)
                      ELSE podcastV1State)
    /\ UNCHANGED << now, ticks, mounted, currentGenerationId,
                    resultMessage, warning, orphanTimers >>

P_reloadPage ==
    /\ focus = "podcastV1"
    /\ podcastV1State' = Rehydrate(PodcastV1InitialState, localStorage[PodcastKey])
    /\ localStorage' = IF IsNull(localStorage[PodcastKey]) THEN localStorage
                       ELSE SetItem(localStorage, PodcastKey,
                                    V1_partialize(podcastV1State'))
    /\ mounted' = FALSE
    /\ requests' = << >>
    /\ orphanTimers' = {}
    /\ UNCHANGED << now, ticks, podcastState, conversationState >>
    /\ UIUnchangedStoreTrace
    /\ UNCHANGED << currentGenerationId, notebookResult, notebookError,
                    resultMessage, warning, settled >>

(***************************************************************************)
(* FileManager (FileManager.jsx).                                          *)
(***************************************************************************)
FM_Store(next) ==
    /\ focus = "conversation"
    /\ conversationState' = next
    /\ localStorage' = SetItem(localStorage, ConversationKey, Conv_partialize(next))
    /\ UNCHANGED << podcastState, podcastV1State >>
    /\ UIUnchangedStoreTrace

\* Mutant: the mount effect clears whenever the record is generating and
\* does not consult isTimedOut().
FM_Mount_ClearsWheneverGenerating ==
    /\ focus = "conversation"
    /\ ~mounted
    /\ LET timedOut == conversationState.generating
       IN /\ IF timedOut
             THEN FM_Store(Conv_clearGeneration(conversationState))
             ELSE UNCHANGED << storeVars >>
          /\ warning' = timedOut
          /\ requests' = IF timedOut THEN Abandon(requests) ELSE requests
    /\ mounted' = TRUE
    /\ resultMessage' = None
    /\ UNCHANGED << now, ticks, currentGenerationId, notebookResult,
                    notebookError, settled, orphanTimers >>

\* Mount: the mount effect clears a generating record that has timed out
\* and warns.
FM_Mount ==
    /\ focus = "conversation"
    /\ ~mounted
    /\ LET timedOut == conversationState.generating
                         /\ Conv_isTimedOut(conversationState, now)
       IN /\ IF timedOut
             THEN FM_Store(Conv_clearGeneration(conversationState))
             ELSE UNCHANGED << storeVars >>
          /\ warning' = timedOut
          /\ requests' = IF timedOut THEN Abandon(requests) ELSE requests
    /\ mounted' = TRUE
    /\ resultMessage' = None
    /\ UNCHANGED << now, ticks, currentGenerationId, notebookResult,
                    notebookError, settled, orphanTimers >>

FM_Unmount ==
    /\ focus = "conversation"
    /\ mounted
    /\ mounted' = FALSE
    /\ requests' = Detach(requests)
    /\ UNCHANGED storeVars
    /\ UNCHANGED << currentGenerationId, notebookResult, notebookError,
                    resultMessage, warning, settled, orphanTimers >>

\* confirmGenerate up to its await: the record is started, the abort timer
\* armed and the request sent.
FM_confirmGenerate ==
    /\ mounted
    /\ ~conversationState.generating
    /\ Len(requests) < MaxRequests
    /\ \E localSelectedFiles \in UIFileNameLists :
          /\ Len(localSelectedFiles) > 0
          /\ FM_Store(Conv_startGeneration(conversationState,
                                           localSelectedFiles, now))
    /\ requests' = Append(Supersede(requests),
                          NewRequest(None, None, now + AbortTimeoutMs))
    /\ UNCHANGED << now, ticks, mounted, currentGenerationId, notebookResult,
                    notebookError, resultMessage, warning, settled,
                    orphanTimers >>

\* The rest of confirmGenerate once the fetch settles with outcome.
FM_finish(i, outcome) ==
    LET r == requests[i]
        h == FM_settle(outcome)
    IN /\ FM_Store(IF h.completes > 0
                   THEN Conv_completeGeneration(conversationState)
                   ELSE conversationState)
       /\ requests' = Drop(requests, i)
       /\ settled' = Some(Val(Settled(r, outcome, TRUE, h.completes))
                          @@ [message |-> h.message,
                              due |-> now >= r.deadline,
                              timerArmed |-> ~(h.cleared \/ outcome = "abort"),
                              idle |-> ~conversationState'.generating])
       /\ orphanTimers' = IF h.cleared \/ outcome = "abort" THEN orphanTimers
                          ELSE orphanTimers \cup {r.deadline}
       /\ resultMessage' = IF OnScreen(r) THEN Some(h.message)
                           ELSE resultMessage

\* The request settles before the abort timer fires.
FM_resume ==
    /\ \E i \in DOMAIN requests, outcome \in FM_outcomes :
          FM_finish(i, outcome)
    /\ UNCHANGED << now, ticks, mounted, currentGenerationId,
                    notebookResult, notebookError, warning >>

\* The abort timer of a pending fetch fires: controller.abort() rejects the
\* fetch with AbortError.
FM_abortTimer ==
    /\ \E i \in DOMAIN requests :
          /\ now >= requests[i].deadline
          /\ FM_finish(i, "abort")
    /\ UNCHANGED << now, ticks, mounted, currentGenerationId,
                    notebookResult, notebookError, warning >>

\* The abort timer of a fetch that already rejected fires: abort() has
\* nothing left to abort.
FM_orphanTimer ==
    /\ focus = "conversation"
    /\ \E d \in orphanTimers :
          /\ now >= d
          /\ orphanTimers' = orphanTimers \ {d}
    /\ UNCHANGED storeVars
    /\ UNCHANGED << mounted, currentGenerationId, notebookResult,
                    notebookError, resultMessage, warning, requests, settled >>

FM_reloadPage ==
    /\ focus = "conversation"
    /\ conversationState' = Rehydrate(ConversationInitialState,
                                      localStorage[ConversationKey])
    /\ localStorage' = IF IsNull(localStorage[ConversationKey]) THEN localStorage
                       ELSE SetItem(localStorage, ConversationKey,
                                    Conv_partialize(conversationState'))
    /\ mounted' = FALSE
    /\ requests' = << >>
    /\ orphanTimers' = {}
    /\ UNCHANGED << now, ticks, podcastState, podcastV1State >>
    /\ UIUnchangedStoreTrace
    /\ UNCHANGED << currentGenerationId, notebookResult, notebookError,
                    resultMessage, warning, settled >>

NextUI ==
    \/ UITick
    \/ G_Mount
    \/ G_handleLocationChange
    \/ G_changeCustomText
    \/ G_processFiles
    \/ G_removeFile
    \/ G_clearAllFiles
    \/ G_Unmount
    \/ G_handleGenerateAdvancedAudio
    \/ G_resume
    \/ G_reloadPage
    \/ P_Mount
    \/ P_handleLocationChange
    \/ P_changeCustomText
    \/ P_processFiles
    \/ P_removeFile
    \/ P_clearAllFiles
    \/ P_Unmount
    \/ P_handleGenerateAdvancedAudio
    \/ P_resume
    \/ P_reloadPage
    \/ FM_Mount
    \/ FM_Unmount
    \/ FM_confirmGenerate
    \/ FM_resume
    \/ FM_abortTimer
    \/ FM_orphanTimer
    \/ FM_reloadPage

SpecUI == Init /\ [][NextUI]_vars

(***************************************************************************)
(* Claims about the callers, checked under SpecUI.                         *)
(***************************************************************************)

\* C5: in both podcast pages a handler whose generation was superseded (a
\* newer startGeneration happened while its request was pending) ignores
\* the response: it does not act on it and calls completeGeneration zero
\* times.  The try/finally page has no token to compare and breaks this.
SupersededResponseIgnored ==
    (/\ focus \in {"podcast", "podcastV1"}
     /\ ~IsNull(settled)
     /\ Val(settled).superseded)
        => (~Val(settled).acted /\ Val(settled).completes = 0)

\* C6: in the generationId-guarded page a handler whose generation was not
\* superseded acts on the response and calls completeGeneration.  The
\* handler compares against the currentGenerationId of the render that
\* created it, which is never the token it has just obtained.
CurrentResponseActedOn ==
    (/\ focus = "podcast"
     /\ ~IsNull(settled)
     /\ ~Val(settled).superseded)
        => (Val(settled).acted /\ Val(settled).completes = 1)

\* C7: in the try/finally podcast page and in the conversation page a
\* handler that has finished called completeGeneration exactly once.  A 2xx
\* response whose JSON body is null makes confirmGenerate call it in the
\* try block and again in the catch block.
ExactlyOneCompletePerRequest ==
    (/\ focus \in {"podcastV1", "conversation"}
     /\ ~IsNull(settled))
        => Val(settled).completes = 1

\* The recorded generation of the tracker driven: every field of the record
\* but podcastMode, which the URL effect of the podcast pages sets at mount.
FocusGeneration ==
    CASE focus = "podcast" ->
            [k \in DOMAIN podcastState \ {"podcastMode"} |-> podcastState[k]]
      [] focus = "podcastV1" ->
            [k \in DOMAIN podcastV1State \ {"podcastMode"} |->
                podcastV1State[k]]
      [] focus = "conversation" -> conversationState

\* The recorded generation as clearGeneration leaves it.
ClearedGeneration ==
    CASE focus = "podcast" ->
            [isGenerating |-> FALSE, customText |-> "",
             uploadedFiles |-> << >>, uploadedFileMetadata |-> << >>,
             startTime |-> None, generationId |-> None]
      [] focus = "podcastV1" ->
            [isGenerating |-> FALSE, customText |-> "",
             uploadedFiles |-> << >>, startTime |-> None]
      [] focus = "conversation" ->
            [generating |-> FALSE, selectedFiles |-> << >>,
             startTime |-> None]

TrackedRequests == {i \in DOMAIN requests : ~requests[i].abandoned}

\* C20: a page calls startGeneration only while its tracker is not
\* generating, and at most one tracked request is in flight.  A stale
\* response that is not ignored (C5) returns the record of a newer request
\* to Idle, and the start control then admits one more.
AtMostOneTrackedRequest ==
    [][/\ Len(requests') > Len(requests)
            => (~FocusGenerating /\ FocusGenerating')
       /\ Cardinality(TrackedRequests') <= 1]_vars

\* The outcomes of confirmGenerate's fetch in which a response arrived.
FM_responses == {"ok_success", "ok_failure", "ok_null", "http_error",
                 "bad_json"}

\* C23: a conversation request ended by the abort timer ended no earlier
\* than 3,000,000 ms after it was sent, with the timeout message, one
\* completeGeneration and the tracker Idle; a request whose response arrived
\* ended with its abort timer cancelled.
AbortTimerContract ==
    (focus = "conversation" /\ ~IsNull(settled)) =>
        LET s == Val(settled)
        IN /\ s.outcome = "abort" =>
                 /\ s.due
                 /\ now >= ClockStart + AbortTimeoutMs
                 /\ s.message = "timeout"
                 /\ s.completes = 1
                 /\ s.idle
                 /\ ~s.timerArmed
           /\ s.outcome \in FM_responses => ~s.timerArmed

\* C23 witness: the abort timer ended a request of the mounted page, the
\* timeout message is shown and the tracker is Idle.
RequestAbortedAfterFiftyMinutes ==
    /\ focus = "conversation"
    /\ ~IsNull(settled)
    /\ Val(settled).outcome = "abort"
    /\ resultMessage = Some("timeout")
    /\ ~conversationState.generating
    /\ requests = << >>

\* The pages whose mount effect consults isTimedOut().
TimeoutCheckingCallers == {"podcastV1", "conversation"}

\* What a page load would rehydrate now for the tracker driven.
FocusRehydrated ==
    CASE focus = "podcast" ->
            Rehydrate(PodcastInitialState, localStorage[PodcastKey])
      [] focus = "podcastV1" ->
            Rehydrate(PodcastV1InitialState, localStorage[PodcastKey])
      [] focus = "conversation" ->
            Rehydrate(ConversationInitialState, localStorage[ConversationKey])

\* C25: whenever a record of podcastStore.js or conversationStore.js is
\* Active, a page load rehydrates it Active with the same startTime; and
\* with no request in flight such a record leaves Active only in a mount
\* step taken while isTimedOut() is true.
ActiveSurvivesReload ==
    /\ []((focus \in TimeoutCheckingCallers /\ FocusGenerating) =>
            /\ IF focus = "conversation" THEN FocusRehydrated.generating
                                         ELSE FocusRehydrated.isGenerating
            /\ FocusRehydrated.startTime = FocusStartTime
            /\ ~IsNull(FocusStartTime))
    /\ [][(/\ focus \in TimeoutCheckingCallers
           /\ requests = << >>
           /\ FocusGenerating
           /\ ~FocusGenerating')
             => (~mounted /\ mounted' /\ FocusIsTimedOut)]_vars

\* C25 witness: an Active conversation record outlived a reload that lost
\* its request, and the page was mounted again before the timeout: the
\* record is still Active with the start time of the lost request.
ActiveAfterReloadAndMount ==
    /\ focus = "conversation"
    /\ conversationState.generating
    /\ requests = << >>
    /\ mounted
    /\ conversationState.startTime = Some(ClockStart)
    /\ now > ClockStart

(***************************************************************************)
(* The upload widget of PodcastGenerator.jsx.  processFiles tests the      *)
(* limits against the uploadedFiles of the render that created it and      *)
(* appends with an updater to the list the store holds at the call.        *)
(***************************************************************************)
MaxStaleCalls == 2

\* Batches a drop or the file input hands to processFiles: one file, more
\* than half the limit, more than the limit, one with an unsupported type,
\* an oversized file.
UploadBatches ==
    LET FilePng == [name |-> "c.png", size |-> 5, type |-> "image/png",
                    lastModified |-> 789, content |-> "bytesC"]
        FileHuge == [name |-> "d.pdf", size |-> MaxFileSize + 1,
                     type |-> "application/pdf", lastModified |-> 321,
                     content |-> "bytesD"]
    IN {<< FileA >>,
        [i \in 1..(MaxUploadFiles \div 2 + 1) |-> FileA],
        [i \in 1..(MaxUploadFiles + 1) |-> FileA],
        << FileA, FilePng >>,
        << FileHuge >>}

U_Store(next, last) ==
    /\ focus = "podcastV1"
    /\ mounted
    /\ upload.calls < MaxStaleCalls
    /\ podcastV1State' = next
    /\ localStorage' = SetItem(localStorage, PodcastKey, V1_partialize(next))
    /\ upload' = [upload EXCEPT !.calls = @ + 1, !.last = last]
    /\ UNCHANGED << now, ticks, focus, podcastState, conversationState, op,
                    returned, previousStart, mounted, currentGenerationId,
                    notebookResult, notebookError, resultMessage, warning,
                    requests, settled, orphanTimers, speech, autoStop, chat >>

\* The component re-renders: the handlers are created anew over the
\* store's list.
U_render ==
    /\ focus = "podcastV1"
    /\ mounted
    /\ upload.calls > 0
    /\ upload' = [rendered |-> podcastV1State.uploadedFiles, calls |-> 0,
                  last |-> "render"]
    /\ UNCHANGED trackerVars
    /\ UNCHANGED << speech, autoStop, chat >>

U_processFiles ==
    \E files \in UploadBatches :
        IF ProcessFilesRejected(files, upload.rendered)
        THEN U_Store(podcastV1State, "rejected")
        ELSE U_Store(V1_setUploadedFiles(podcastV1State,
                         [kind |-> "function", fn |-> "append",
                          files |-> files]),
                     "accepted")

U_removeFile ==
    \E index \in DOMAIN upload.rendered :
        U_Store(V1_setUploadedFiles(podcastV1State,
                    [kind |-> "function", fn |-> "removeAt",
                     index |-> index]),
                "removeFile")

U_clearAllFiles ==
    /\ Len(upload.rendered) > 0
    /\ U_Store(V1_setUploadedFiles(podcastV1State,
                   [kind |-> "array", files |-> << >>]),
               "clearAllFiles")

NextUpload ==
    \/ P_Mount
    \/ U_render
    \/ U_processFiles
    \/ U_removeFile
    \/ U_clearAllFiles

\* The widget and the hooks live in the page of PodcastGenerator.jsx.
InitHooks == Init /\ focus = "podcastV1"

SpecUpload == InitHooks /\ [][NextUpload]_vars

\* C24: the upload list never holds more than 10 files, every file in it
\* has a supported type and at most 10 MB, and a rejected batch leaves the
\* list as it was.
UploadListWithinLimits ==
    /\ [](/\ Len(podcastV1State.uploadedFiles) <= MaxUploadFiles
          /\ \A i \in DOMAIN podcastV1State.uploadedFiles :
                /\ podcastV1State.uploadedFiles[i].type \in SupportedTypes
                /\ podcastV1State.uploadedFiles[i].size <= MaxFileSize)
    /\ [][upload'.last = "rejected" =>
             podcastV1State'.uploadedFiles = podcastV1State.uploadedFiles]_vars

(***************************************************************************)
(* The recognizer (Web Speech API).  start() throws InvalidStateError      *)
(* unless the recognizer is idle; stop() is ignored unless a session is    *)
(* starting or running; events are delivered asynchronously, so a start    *)
(* event already dispatched is delivered after stop().                     *)
(***************************************************************************)
MaxUtterances == 1

RecognitionStart(s) ==
    IF s.engine = "idle"
    THEN [s EXCEPT !.engine = "starting", !.started = FALSE,
                   !.errored = FALSE]
    ELSE s

RecognitionStop(s) ==
    IF s.engine \in {"starting", "running"}
    THEN [s EXCEPT !.engine = "stopping"]
    ELSE s

(***************************************************************************)
(* The handlers of useSpeechRecognition.js, each from the hook's state s   *)
(* to its next state.                                                      *)
(***************************************************************************)
Speech_onstart(s) ==
    LET t == [s EXCEPT !.isListening = TRUE, !.isStarting = FALSE,
                       !.shouldStop = FALSE, !.started = TRUE,
                       !.engine = IF @ = "starting" THEN "running" ELSE @,
                       !.clearPending = FALSE, !.leak = FALSE,
                       !.last = "onstart"]
    IN IF Len(s.finalTranscript) > 0
          /\ s.finalTranscript[Len(s.finalTranscript)] # " "
       THEN [t EXCEPT !.finalTranscript = @ \o << " " >>]
       ELSE t

\* One result per event: its text and whether it is final.
Speech_onresult(s, text, isFinal) ==
    IF s.restartAfterClear
    THEN [s EXCEPT !.last = "onresult", !.leak = FALSE]
    ELSE LET final == IF isFinal THEN s.finalTranscript \o << text, " " >>
                      ELSE s.finalTranscript
             interim == IF isFinal THEN << >> ELSE << text >>
         IN [s EXCEPT !.finalTranscript = final,
                      !.transcript = final \o interim,
                      !.last = "onresult",
                      !.leak = s.clearPending]

Speech_onerror(s) ==
    [s EXCEPT !.isListening = FALSE, !.restartAfterClear = FALSE,
              !.isStarting = FALSE, !.errored = TRUE,
              !.engine = "stopping", !.leak = FALSE, !.last = "onerror"]

Speech_onend(s) ==
    LET t == [s EXCEPT !.isListening = FALSE, !.isStarting = FALSE,
                       !.engine = "idle", !.leak = FALSE, !.last = "onend"]
    IN IF s.restartAfterClear /\ ~s.shouldStop
       THEN RecognitionStart(
                [t EXCEPT !.restartAfterClear = FALSE,
                          !.finalTranscript = << >>,
                          !.transcript = << >>,
                          !.startedIn = "idle",
                          !.manualStop = FALSE,
                          !.autoRestart = IF s.manualStop
                                          THEN "afterManualStop"
                                          ELSE "afterClear"])
       ELSE [t EXCEPT !.restartAfterClear = FALSE, !.shouldStop = FALSE,
                      !.autoRestart = "none", !.clearPending = FALSE]

Speech_startListening(s) ==
    IF s.isStarting \/ s.isListening
    THEN [s EXCEPT !.last = "startListening", !.leak = FALSE]
    ELSE LET t == RecognitionStart(
                      [s EXCEPT !.isStarting = TRUE, !.shouldStop = FALSE,
                                !.startedIn = s.engine,
                                !.manualStop = s.engine # "idle" /\ @,
                                !.last = "startListening", !.leak = FALSE])
         IN IF s.engine = "idle" THEN t
            ELSE [t EXCEPT !.isListening = FALSE, !.isStarting = FALSE]

Speech_stopListening(s) ==
    RecognitionStop(
        [s EXCEPT !.shouldStop = TRUE, !.restartAfterClear = FALSE,
                  !.isStarting = FALSE, !.isListening = FALSE,
                  !.manualStop = s.engine # "idle" \/ @,
                  !.last = "stopListening", !.leak = FALSE])

Speech_clearTranscript(s) ==
    LET t == [s EXCEPT !.finalTranscript = << >>, !.transcript = << >>,
                       !.last = "clearTranscript", !.leak = FALSE]
    IN IF s.isListening
       THEN RecognitionStop([t EXCEPT !.restartAfterClear = TRUE,
                                      !.clearPending = TRUE])
       ELSE t

Speech_toggleListening(s) ==
    IF s.isStarting THEN [s EXCEPT !.last = "toggleListening", !.leak = FALSE]
    ELSE IF s.isListening THEN Speech_stopListening(s)
         ELSE Speech_startListening(s)

NextSpeech ==
    /\ UNCHANGED trackerVars
    /\ UNCHANGED << upload, autoStop, chat >>
    /\ \/ speech' = Speech_startListening(speech)
       \/ speech' = Speech_stopListening(speech)
       \/ speech' = Speech_toggleListening(speech)
       \/ speech' = Speech_clearTranscript(speech)
       \/ /\ speech.engine # "idle"
          /\ ~speech.started
          /\ ~speech.errored
          /\ speech' = Speech_onstart(speech)
       \/ /\ speech.engine \in {"running", "stopping"}
          /\ speech.started
          /\ ~speech.errored
          /\ \E isFinal \in BOOLEAN :
                /\ isFinal => Len(speech.finalTranscript) < 2 * MaxUtterances
                /\ speech' = Speech_onresult(speech, "hi", isFinal)
       \/ /\ speech.engine # "idle"
          /\ ~speech.errored
          /\ speech' = Speech_onerror(speech)
       \/ /\ speech.engine \in {"running", "stopping"}
          /\ speech' = Speech_onend(speech)

SpecSpeech == InitHooks /\ [][NextSpeech]_vars

\* C26: recognition.start() is never invoked while a session is starting
\* or running.
StartOnlyWhenNoSession == speech.startedIn \notin {"starting", "running"}

\* C27: no onend restarts recognition for a session that stopListening
\* stopped.
NoRestartAfterManualStop == speech.autoRestart # "afterManualStop"

\* C28: no result is accepted between a clearTranscript issued while
\* listening and the start of the next session, and a session restarted by
\* onend starts with an empty accumulated transcript.
ClearedTextNeverReappears ==
    /\ ~speech.leak
    /\ speech.autoRestart = "afterClear" /\ speech.last \in {"onend", "onstart"}
          => speech.finalTranscript = << >> /\ speech.transcript = << >>

(***************************************************************************)
(* The handlers of the auto-stop hook (part_010), each from the hook's     *)
(* state s to its next state.                                              *)
(***************************************************************************)
AutoStopMs == 10000
MaxSessions == 2
MaxHookTicks == 2

\* if (autoStopTimerRef.current) { clearTimeout(...); ... = null }
AutoStop_clearTimer(s) ==
    IF IsNull(s.autoStopTimerRef) THEN s
    ELSE [s EXCEPT !.timers = @ \ {Val(s.autoStopTimerRef)},
                   !.autoStopTimerRef = None]

AutoStop_onstart(s) ==
    LET timer == [deadline |-> s.clock + AutoStopMs, session |-> s.session]
    IN [s EXCEPT !.isListening = TRUE,
                 !.timers = @ \cup {timer},
                 !.autoStopTimerRef = Some(timer),
                 !.started = TRUE,
                 !.engine = IF @ = "starting" THEN "running" ELSE @,
                 !.onstartAt = Some(s.clock),
                 !.last = "onstart"]

\* The timer's callback: recognition.stop().
AutoStop_timeout(s, timer) ==
    RecognitionStop([s EXCEPT !.timers = @ \ {timer}, !.last = "timeout"])

AutoStop_onerror(s) ==
    [AutoStop_clearTimer(s) EXCEPT !.isListening = FALSE, !.errored = TRUE,
                                   !.engine = "stopping", !.last = "onerror"]

\* Mutant: onend leaves the auto-stop timer armed.
AutoStop_onend_TimerKept(s) ==
    [s EXCEPT !.isListening = FALSE, !.engine = "idle", !.last = "onend"]

AutoStop_onend(s) ==
    [AutoStop_clearTimer(s) EXCEPT !.isListening = FALSE, !.engine = "idle",
                                   !.last = "onend"]

\* The effect's cleanup at unmount; the ref is not reset.
AutoStop_cleanup(s) ==
    LET t == RecognitionStop([s EXCEPT !.mounted = FALSE,
                                       !.last = "unmount"])
    IN IF IsNull(s.autoStopTimerRef) THEN t
       ELSE [t EXCEPT !.timers = @ \ {Val(s.autoStopTimerRef)}]

AutoStop_startListening(s) ==
    IF s.isListening THEN [s EXCEPT !.last = "startListening"]
    ELSE RecognitionStart(
             [s EXCEPT !.session = IF s.engine = "idle" THEN @ + 1 ELSE @,
                       !.last = "startListening"])

AutoStop_stopListening(s) ==
    IF ~s.isListening THEN [s EXCEPT !.last = "stopListening"]
    ELSE AutoStop_clearTimer(
             RecognitionStop([s EXCEPT !.last = "stopListening"]))

AutoStop_toggleListening(s) ==
    IF s.isListening THEN AutoStop_stopListening(s)
    ELSE AutoStop_startListening(s)

\* Timers fire when they are due: the clock does not pass the deadline of
\* an armed timer.
NextAutoStop ==
    /\ UNCHANGED trackerVars
    /\ UNCHANGED << upload, speech, chat >>
    /\ \/ /\ autoStop.ticks < MaxHookTicks
          /\ \E d \in {AutoStopMs \div 2, AutoStopMs} :
                /\ \A t \in autoStop.timers :
                      autoStop.clock + d <= t.deadline
                /\ autoStop' = [autoStop EXCEPT !.clock = @ + d,
                                                !.ticks = @ + 1,
                                                !.last = "tick"]
       \/ /\ autoStop.mounted
          /\ autoStop.session < MaxSessions
          /\ autoStop' = AutoStop_startListening(autoStop)
       \/ /\ autoStop.mounted
          /\ autoStop' = AutoStop_stopListening(autoStop)
       \/ /\ autoStop.mounted
          /\ autoStop.session < MaxSessions
          /\ autoStop' = AutoStop_toggleListening(autoStop)
       \/ /\ autoStop.mounted
          /\ autoStop' = AutoStop_cleanup(autoStop)
       \/ /\ autoStop.engine # "idle"
          /\ ~autoStop.started
          /\ ~autoStop.errored
          /\ autoStop' = AutoStop_onstart(autoStop)
       \/ \E timer \in autoStop.timers :
             /\ autoStop.clock >= timer.deadline
             /\ autoStop' = AutoStop_timeout(autoStop, timer)
       \/ /\ autoStop.engine # "idle"
          /\ ~autoStop.errored
          /\ autoStop' = AutoStop_onerror(autoStop)
       \/ /\ autoStop.engine \in {"running", "stopping"}
          /\ autoStop' = AutoStop_onend(autoStop)

SpecAutoStop == InitHooks /\ [][NextAutoStop]_vars

MaxMessages == 3

\* The save effect: localStorage.setItem(storageKey, JSON.stringify(...)).
Chat_save(s) ==
    [s EXCEPT !.stored = Some(Chat_stringify(s.messages, s.inputMessage))]

Chat_loadInitialState(stored) ==
    IF IsNull(stored) THEN [messages |-> << >>, inputMessage |-> ""]
    ELSE [messages |-> [i \in DOMAIN Val(stored).messages |->
                           [Val(stored).messages[i]
                               EXCEPT !.timestamp = [date |-> @.iso]]],
          inputMessage |-> Val(stored).inputMessage]

Chat_addMessage(s, message) ==
    Chat_save([s EXCEPT !.messages = Append(@, message),
                        !.last = "addMessage"])

\* Setting the value already held re-renders nothing and runs no effect.
Chat_setInputMessage(s, text) ==
    IF text = s.inputMessage THEN [s EXCEPT !.last = "setInputMessage"]
    ELSE Chat_save([s EXCEPT !.inputMessage = text,
                             !.last = "setInputMessage"])

\* setMessages([]) stores a new array, so the render that follows runs the
\* save effect after removeItem.
Chat_clearChat(s) ==
    Chat_save([s EXCEPT !.messages = << >>, !.inputMessage = "",
                        !.stored = None, !.last = "clearChat"])

\* The page is loaded again: loadInitialState, then the first render's
\* save effect.
Chat_reload(s) ==
    LET initialState == Chat_loadInitialState(s.stored)
    IN Chat_save([messages |-> initialState.messages,
                  inputMessage |-> initialState.inputMessage,
                  stored |-> s.stored, last |-> "reload"])

NextChat ==
    /\ UNCHANGED trackerVars
    /\ UNCHANGED << upload, speech, autoStop >>
    /\ \/ \E message \in
                {[role |-> "user", content |-> "hi",
                  timestamp |-> [date |-> 1000]],
                 [role |-> "assistant", content |-> "ok",
                  timestamp |-> [date |-> 2000]]} :
             /\ Len(chat.messages) < MaxMessages
             /\ chat' = Chat_addMessage(chat, message)
       \/ \E text \in TypedTexts : chat' = Chat_setInputMessage(chat, text)
       \/ chat' = Chat_clearChat(chat)
       \/ chat' = Chat_reload(chat)

SpecChat == InitHooks /\ [][NextChat]_vars

\* C30: after clearChat and the save effect it triggers, localStorage
\* holds no entry under storageKey and messages and inputMessage are
\* empty.
ClearChatRemovesEntry ==
    chat.last = "clearChat" =>
        /\ IsNull(chat.stored)
        /\ chat.messages = << >>
        /\ chat.inputMessage = ""

====
